---- MODULE Spec2Model ----
\* Verification model of the Gold Tracker: Ichimoku calculation, signal
\* evaluation, alert-history ledger, e-mail notification and website
\* snapshot, as implemented in src/unnamed/part_001.
EXTENDS Integers, Sequences, FiniteSets, TLC

\* ---------------------------------------------------------------------
\* Bounds of the model
\* ---------------------------------------------------------------------
\* longest series given to getIchimokuAt in SpecIchi
MaxIchiLen == 80
\* longest series a run fetches
MaxRunLen == 80
\* number of runs of run() explored in Spec
MaxRuns == 3
\* number of runs started in SpecConc (shared by the two processes)
MaxConcRuns == 3

\* ---------------------------------------------------------------------
\* JavaScript numbers: finite values, +/-Infinity and NaN.
\* All prices of the model are multiples of 4, so that every (a+b)/2 of
\* the calculator is an exact integer, as it is exact in IEEE doubles.
\* ---------------------------------------------------------------------
Fin(n) == [t |-> "fin", v |-> n]
NaN == [t |-> "nan", v |-> 0]
PosInf == [t |-> "inf", v |-> 1]
NegInf == [t |-> "inf", v |-> -1]
IsFinite(a) == a.t = "fin"

NumAdd(a, b) ==
  IF a.t = "nan" \/ b.t = "nan" THEN NaN
  ELSE IF a.t = "fin" /\ b.t = "fin" THEN Fin(a.v + b.v)
  ELSE IF a.t = "inf" /\ b.t = "inf" THEN (IF a.v = b.v THEN a ELSE NaN)
  ELSE IF a.t = "inf" THEN a ELSE b

NumHalf(a) == IF a.t = "fin" THEN Fin(a.v \div 2) ELSE a

\* a > b of JavaScript: false as soon as one side is NaN
NumGt(a, b) ==
  /\ a.t # "nan"
  /\ b.t # "nan"
  /\ IF a.t = "fin" /\ b.t = "fin" THEN a.v > b.v
     ELSE IF a.t = "inf" /\ b.t = "inf" THEN a.v > b.v
     ELSE IF a.t = "inf" THEN a.v > 0
     ELSE b.v < 0
NumLt(a, b) == NumGt(b, a)

\* Math.max / Math.min: NaN if any argument is NaN
MathMax(a, b) == IF a.t = "nan" \/ b.t = "nan" THEN NaN ELSE IF NumGt(b, a) THEN b ELSE a
MathMin(a, b) == IF a.t = "nan" \/ b.t = "nan" THEN NaN ELSE IF NumLt(b, a) THEN b ELSE a

\* ---------------------------------------------------------------------
\* Array.prototype.slice(start, end) on a 0-based array held as a
\* 1-based sequence: negative bounds count from the end, bounds are
\* clamped to the array, an inverted range is empty.
\* ---------------------------------------------------------------------
ClampIdx(k, len) ==
  IF k < 0 THEN (IF len + k < 0 THEN 0 ELSE len + k)
  ELSE IF k > len THEN len ELSE k

Slice(arr, start, end) ==
  SubSeq(arr, ClampIdx(start, Len(arr)) + 1, ClampIdx(end, Len(arr)))

\* getHL: highest high and lowest low of a slice, starting from
\* -Infinity/Infinity (what the loop leaves for an empty slice). The bars
\* hold finite numbers, so the loop's running maximum is the maximum.
SeqMax(slice) == CHOOSE x \in {slice[k].high : k \in 1..Len(slice)} :
                   \A k \in 1..Len(slice) : slice[k].high <= x
SeqMin(slice) == CHOOSE x \in {slice[k].low : k \in 1..Len(slice)} :
                   \A k \in 1..Len(slice) : slice[k].low >= x

getHL(slice) ==
  IF Len(slice) = 0 THEN [h |-> NegInf, l |-> PosInf]
  ELSE [h |-> Fin(SeqMax(slice)), l |-> Fin(SeqMin(slice))]

Mid(hl) == NumHalf(NumAdd(hl.h, hl.l))

\* ---------------------------------------------------------------------
\* getIchimokuAt(data, index)
\* ---------------------------------------------------------------------
NullIchimoku == [null |-> TRUE]

LeadIn61 == 9 + 52
\* the guard "index < 52 + 25"
LeadIn == 52 + 25

getIchimokuAt(data, index) ==
  IF index < LeadIn THEN NullIchimoku
  ELSE
    LET tenkanHL == getHL(Slice(data, index - 8, index + 1))
        kijunHL == getHL(Slice(data, index - 25, index + 1))
        t26 == getHL(Slice(data, index - 25 - 9, index - 25 + 1))
        k26 == getHL(Slice(data, index - 25 - 26, index - 25 + 1))
        b52 == getHL(Slice(data, index - 25 - 52, index - 25 + 1))
    IN [null |-> FALSE,
        tenkan |-> Mid(tenkanHL),
        kijun |-> Mid(kijunHL),
        spanA |-> NumHalf(NumAdd(Mid(t26), Mid(k26))),
        spanB |-> Mid(b52)]

\* ---------------------------------------------------------------------
\* Strings are sequences of one-character strings.
\* ---------------------------------------------------------------------
Digits == <<"0", "1", "2", "3", "4", "5", "6", "7", "8", "9">>
TwoDigits(n) == <<Digits[(n \div 10) + 1], Digits[(n % 10) + 1]>>

\* A Date is held as its trading-day number n >= 0 (28-day months of the
\* year 2024). IsoDay(n) is the YYYY-MM-DD part of toISOString() and
\* toISOString(n) the whole string: the bars are dated at midnight UTC.
IsoDay(n) ==
  <<"2", "0", "2", "4", "-">> \o TwoDigits((n \div 28) + 1) \o <<"-">> \o TwoDigits((n % 28) + 1)

toISOString(n) ==
  IsoDay(n) \o <<"T", "0", "0", ":", "0", "0", ":", "0", "0", ".", "0", "0", "0", "Z">>

\* ---------------------------------------------------------------------
\* Bar series the model feeds to the program: flat at `base`, with one
\* optional high spike (16) hp bars before bar `anchor`, one optional low
\* dip (0) lp bars before it, and a chosen close on the last bar. A
\* position of -1 means "none". Bar j (0-based) is dated so that the last
\* bar falls on trading day lastDay.
\* ---------------------------------------------------------------------
SpikeHigh == 4 * 4
DipLow == 0 * 4

\* shortest series explored: one bar short of what run() requires
MinLen == 80 - 1

MkSeries(len, lastDay, base, anchor, hp, lp, c) ==
  [j \in 1..len |->
     [date |-> lastDay - (len - j),
      open |-> base,
      high |-> IF hp >= 0 /\ (j - 1) = anchor - hp THEN SpikeHigh ELSE base,
      low |-> IF lp >= 0 /\ (j - 1) = anchor - lp THEN DipLow ELSE base,
      close |-> IF j = len THEN c ELSE base]]

\* ---------------------------------------------------------------------
\* Signal evaluation of run(): '' (no signal), 'BUY' or 'SELL'
\* ---------------------------------------------------------------------
NOSIGNAL == <<>>
BUY == <<"B", "U", "Y">>
SELL == <<"S", "E", "L", "L">>
NEUTRAL == <<"N", "E", "U", "T", "R", "A", "L">>

evaluateSignalGe(price, ich) ==
  IF ~NumLt(ich.tenkan, ich.kijun) /\ NumGt(price, MathMax(ich.spanA, ich.spanB)) THEN BUY
  ELSE IF NumLt(ich.tenkan, ich.kijun) /\ NumLt(price, MathMin(ich.spanA, ich.spanB)) THEN SELL
  ELSE NOSIGNAL

evaluateSignal(price, ich) ==
  IF NumGt(ich.tenkan, ich.kijun) /\ NumGt(price, MathMax(ich.spanA, ich.spanB)) THEN BUY
  ELSE IF NumLt(ich.tenkan, ich.kijun) /\ NumLt(price, MathMin(ich.spanA, ich.spanB)) THEN SELL
  ELSE NOSIGNAL

\* signal || 'NEUTRAL'
SignalNameRaw(signal) == signal
SignalName(signal) == IF signal = NOSIGNAL THEN NEUTRAL ELSE signal

\* ---------------------------------------------------------------------
\* String.prototype.split(sep) and Array.prototype.join(sep)
\* ---------------------------------------------------------------------
SepPos(str, sep) == {i \in 1..Len(str) : str[i] = sep}

\* position of the k-th separator; 0 before the first, Len+1 after the last
NthSep(str, sep, k) ==
  IF k = 0 THEN 0
  ELSE IF k > Cardinality(SepPos(str, sep)) THEN Len(str) + 1
  ELSE CHOOSE p \in SepPos(str, sep) : Cardinality({q \in SepPos(str, sep) : q < p}) = k - 1

Split(str, sep) ==
  [k \in 1..(Cardinality(SepPos(str, sep)) + 1) |->
     SubSeq(str, NthSep(str, sep, k - 1) + 1, NthSep(str, sep, k) - 1)]

RECURSIVE Join(_, _)
Join(parts, sep) ==
  IF Len(parts) = 0 THEN <<>>
  ELSE IF Len(parts) = 1 THEN parts[1]
  ELSE parts[1] \o <<sep>> \o Join(Tail(parts), sep)

\* ---------------------------------------------------------------------
\* Files: alert-history.json (a JSON object whose keys, in insertion
\* order, all map to true) and data.json
\* ---------------------------------------------------------------------
NoFile == [exists |-> FALSE, content |-> <<>>]
File(content) == [exists |-> TRUE, content |-> content]

InSeq(seq, x) == \E i \in 1..Len(seq) : seq[i] = x

\* `${signal}-${date.split('T')[0]}`
AlertKey(signal, date) == signal \o <<"-">> \o Split(date, "T")[1]

\* history[key] (every stored value is true)
HistoryHasNever(history, key) == FALSE
HistoryHas(history, key) == InSeq(history, key)

\* history[key] = true
HistorySetOnly(history, key) == <<key>>
HistorySet(history, key) == IF InSeq(history, key) THEN history ELSE Append(history, key)

\* checkAlertHistory(signal, date) on the file hf: the value returned and
\* the file it leaves
checkAlertHistory(hf, signal, date) ==
  LET created == IF hf.exists THEN hf ELSE File(<<>>)
      history == created.content
      key == AlertKey(signal, date)
  IN IF HistoryHas(history, key)
     THEN [ret |-> TRUE, file |-> created]
     ELSE [ret |-> FALSE, file |-> File(HistorySet(history, key))]

\* the key => {type, date} mapping of the signalsArray
ParseKeyTruncated(key) ==
  LET parts == Split(key, "-")
  IN [type |-> parts[1], date |-> IF Len(parts) > 1 THEN parts[2] ELSE <<>>]

ParseKey(key) ==
  LET parts == Split(key, "-")
  IN [type |-> parts[1], date |-> Join(SubSeq(parts, 2, Len(parts)), "-")]

\* JSON.parse(existsSync ? readFileSync : '{}') and Object.keys
ReadHistoryKeys(hf) == IF hf.exists THEN hf.content ELSE <<>>

signalsArray(historyData) == [k \in 1..Len(historyData) |-> ParseKey(historyData[k])]

\* ---------------------------------------------------------------------
\* The snapshot
\* ---------------------------------------------------------------------
JsonNull == [t |-> "null", v |-> 0]

\* x || null: 0 and NaN are falsy
OrNull(x) == IF x.t = "nan" \/ (x.t = "fin" /\ x.v = 0) THEN JsonNull ELSE x

\* JSON.stringify of a number: NaN and the infinities are written as null
JsonNum(x) == IF x.t = "fin" THEN x ELSE JsonNull

\* indicators?.field || null
IndicatorField(indicators, field) ==
  IF indicators.null THEN JsonNull ELSE JsonNum(OrNull(indicators[field]))

displayHistory(data) ==
  LET shown == Slice(data, -40, Len(data))
  IN [i \in 1..Len(shown) |->
        LET d == shown[i]
            absIdx == Len(data) - 40 + (i - 1)
            indicators == getIchimokuAt(data, absIdx)
        IN [date |-> Split(toISOString(d.date), "T")[1],
            open |-> d.open, high |-> d.high, low |-> d.low, close |-> d.close,
            price |-> d.close,
            tenkan |-> IndicatorField(indicators, "tenkan"),
            kijun |-> IndicatorField(indicators, "kijun"),
            spanA |-> IndicatorField(indicators, "spanA"),
            spanB |-> IndicatorField(indicators, "spanB")]]

Ticker == <<"G", "L", "D">>

websiteData(data, price, date, signal, latestIchimoku, historyData) ==
  [ticker |-> Ticker,
   price |-> price,
   date |-> date,
   signal |-> SignalName(signal),
   signalHistory |-> signalsArray(historyData),
   ichimoku |-> [tenkan |-> JsonNum(latestIchimoku.tenkan),
                 kijun |-> JsonNum(latestIchimoku.kijun),
                 senkouA |-> JsonNum(latestIchimoku.spanA),
                 senkouB |-> JsonNum(latestIchimoku.spanB)],
   history |-> displayHistory(data)]

\* ---------------------------------------------------------------------
\* sendEmail(subject, body): nothing is attempted without credentials;
\* otherwise one attempt per recipient, a failed attempt being logged and
\* the loop going on. smtp.attempts[r] tells whether sendMail to the
\* r-th recipient resolves.
\* ---------------------------------------------------------------------
Recipients == <<"first", "second">>

SmtpCases ==
  {[creds |-> FALSE, attempts |-> [r \in 1..Len(Recipients) |-> FALSE]]}
  \cup {[creds |-> TRUE, attempts |-> a] : a \in [1..Len(Recipients) -> BOOLEAN]}

sendEmail(smtp) ==
  IF ~smtp.creds THEN <<>>
  ELSE [r \in 1..Len(Recipients) |->
          [to |-> Recipients[r], delivered |-> smtp.attempts[r]]]

\* ---------------------------------------------------------------------
\* run(): the result of one whole run started on the files hf
\* (alert-history.json) and wf (data.json), given what the fetch returns;
\* info.notified tells whether sendEmail was called.
\* ---------------------------------------------------------------------
RunIdle ==
  [fetched |-> FALSE, len |-> 0, exit |-> 0, signal |-> NOSIGNAL, day |-> <<>>,
   checked |-> FALSE, notified |-> FALSE, deliveries |-> <<>>, published |-> FALSE,
   data |-> <<>>]

\* catch (error) { ...; process.exit(1) }
abortedExitZero(hf, wf, fetched, len) ==
  [hf |-> hf, wf |-> wf,
   info |-> [RunIdle EXCEPT !.fetched = fetched, !.len = len, !.exit = 0]]

aborted(hf, wf, fetched, len) ==
  [hf |-> hf, wf |-> wf,
   info |-> [RunIdle EXCEPT !.fetched = fetched, !.len = len, !.exit = 1]]

runResult(hf, wf, in) ==
  IF ~in.ok THEN aborted(hf, wf, FALSE, 0)
  ELSE IF Len(in.data) < 80
  THEN [hf |-> hf, wf |-> wf, info |-> [RunIdle EXCEPT !.fetched = TRUE, !.len = Len(in.data)]]
  ELSE
    LET data == in.data
        latestIdx == Len(data) - 1
        latestIchimoku == getIchimokuAt(data, latestIdx)
        price == Fin(data[latestIdx + 1].close)
        date == toISOString(data[latestIdx + 1].date)
    IN IF latestIchimoku.null THEN aborted(hf, wf, TRUE, Len(data))
       ELSE
         LET signal == evaluateSignal(price, latestIchimoku)
             checked == signal # NOSIGNAL
             cah == IF checked THEN checkAlertHistory(hf, signal, date)
                    ELSE [ret |-> TRUE, file |-> hf]
             notified == checked /\ ~cah.ret
             historyData == ReadHistoryKeys(cah.file)
         IN [hf |-> cah.file,
             wf |-> File(websiteData(data, price, date, signal, latestIchimoku, historyData)),
             info |-> [fetched |-> TRUE, len |-> Len(data), exit |-> 0,
                       signal |-> signal, day |-> IsoDay(data[latestIdx + 1].date),
                       checked |-> checked, notified |-> notified,
                       deliveries |-> <<>>,
                       published |-> TRUE,
                       data |-> data]]

\* ---------------------------------------------------------------------
\* State
\* ---------------------------------------------------------------------
VARIABLES
  historyFile, \* alert-history.json
  websiteFile, \* website/public/data.json
  sent,        \* the sendEmail calls made so far: <<[signal, day, price]>>
  passed,      \* the (signal, day) pairs given to checkAlertHistory so far
  lastRun,     \* what the latest run of run() did
  runs,        \* number of runs started
  pc,          \* SpecConc: where each process stands in run()
  loc,         \* SpecConc: the local variables of each process
  ichi,        \* SpecIchi: one call getIchimokuAt(data, index) and its result
  ev           \* SpecEval: one evaluation of the signal of a price and a tuple

vars == <<historyFile, websiteFile, sent, passed, lastRun, runs, pc, loc, ichi, ev>>

progVars == <<historyFile, websiteFile, sent, passed, lastRun, runs, pc, loc>>

Procs == {1, 2}

LocIdle == [in |-> [ok |-> FALSE, data |-> <<>>], signal |-> NOSIGNAL, date |-> <<>>,
            history |-> <<>>, historyData |-> <<>>]

IchiIdle == [data |-> <<>>, index |-> 0, result |-> NullIchimoku, done |-> FALSE]
EvIdle == [price |-> Fin(0), ich |-> NullIchimoku, signal |-> NOSIGNAL, done |-> FALSE]

\* before the first run: neither file exists, nothing was sent
InitProg ==
  /\ historyFile = NoFile
  /\ websiteFile = NoFile
  /\ sent = <<>>
  /\ passed = {}
  /\ lastRun = RunIdle
  /\ runs = 0
  /\ pc = [p \in Procs |-> "idle"]
  /\ loc = [p \in Procs |-> LocIdle]

\* ---------------------------------------------------------------------
\* Spec: runs of run(), one after the other
\* ---------------------------------------------------------------------
\* what the fetch of a run returns: a failure, or a series. The shapes
\* give a BUY, a SELL, a tie above the cloud, a price inside the cloud
\* and an all-zero series.
RunShapes ==
  {[base |-> 8, hp |-> -1, lp |-> 10, c |-> 12],
   [base |-> 8, hp |-> 10, lp |-> -1, c |-> 4],
   [base |-> 8, hp |-> -1, lp |-> -1, c |-> 12],
   [base |-> 8, hp |-> -1, lp |-> 10, c |-> 8],
   [base |-> 0, hp |-> -1, lp |-> -1, c |-> 0]}

LastDays == {100, 101}

FetchResults ==
  {[ok |-> FALSE, data |-> <<>>]}
  \cup {[ok |-> TRUE, data |-> MkSeries(len, day, sh.base, len - 1, sh.hp, sh.lp, sh.c)] :
          len \in MinLen..MaxRunLen, day \in LastDays, sh \in RunShapes}

Init ==
  /\ InitProg
  /\ ichi = IchiIdle
  /\ ev = EvIdle

Run ==
  /\ runs < MaxRuns
  /\ \E in \in FetchResults :
       \E res \in {runResult(historyFile, websiteFile, in)} :
          /\ historyFile' = res.hf
          /\ websiteFile' = res.wf
          /\ \E smtp \in IF res.info.notified THEN SmtpCases ELSE {CHOOSE c \in SmtpCases : ~c.creds} :
               lastRun' = [res.info EXCEPT
                             !.deliveries = IF res.info.notified THEN sendEmail(smtp) ELSE <<>>]
          /\ sent' = IF res.info.notified
                     THEN Append(sent, [signal |-> res.info.signal, day |-> res.info.day,
                                        price |-> in.data[Len(in.data)].close])
                     ELSE sent
          /\ passed' = IF res.info.checked
                       THEN passed \cup {[type |-> res.info.signal, date |-> res.info.day]}
                       ELSE passed
  /\ runs' = runs + 1
  /\ UNCHANGED <<pc, loc, ichi, ev>>

Next == Run

Spec == Init /\ [][Next]_vars

\* ---------------------------------------------------------------------
\* SpecConc: runs of run() in two processes on the same files, one step
\* per file operation or await, any of which a crash may follow
\* ---------------------------------------------------------------------
ConcShapes ==
  {[base |-> 8, hp |-> -1, lp |-> 10, c |-> 12],
   [base |-> 8, hp |-> 10, lp |-> -1, c |-> 4],
   [base |-> 8, hp |-> -1, lp |-> 10, c |-> 8]}

ConcFetchResults ==
  {[ok |-> FALSE, data |-> <<>>]}
  \cup {[ok |-> TRUE, data |-> MkSeries(80, 100, sh.base, 79, sh.hp, sh.lp, sh.c)] : sh \in ConcShapes}
  \cup {[ok |-> TRUE, data |-> MkSeries(MinLen, 100, 8, MinLen - 1, -1, -1, 8)]}

Running == {"cahExists", "cahCreate", "cahRead", "cahWrite", "send", "readHistory", "publish"}

InitConc ==
  /\ InitProg
  /\ ichi = IchiIdle
  /\ ev = EvIdle

\* lines 137-164: the fetch returns and the signal is evaluated
StartRun(p) ==
  /\ pc[p] \notin Running
  /\ runs < MaxConcRuns
  /\ runs' = runs + 1
  /\ \E in \in ConcFetchResults :
       IF ~in.ok THEN /\ pc' = [pc EXCEPT ![p] = "exited"]
                      /\ loc' = [loc EXCEPT ![p] = LocIdle]
       ELSE IF Len(in.data) < 80
       THEN /\ pc' = [pc EXCEPT ![p] = "done"]
            /\ loc' = [loc EXCEPT ![p] = [LocIdle EXCEPT !.in = in]]
       ELSE \E latestIchimoku \in {getIchimokuAt(in.data, Len(in.data) - 1)} :
              IF latestIchimoku.null
              THEN /\ pc' = [pc EXCEPT ![p] = "exited"]
                   /\ loc' = [loc EXCEPT ![p] = LocIdle]
              ELSE \E signal \in {evaluateSignal(Fin(in.data[Len(in.data)].close), latestIchimoku)} :
                     /\ pc' = [pc EXCEPT ![p] = IF signal # NOSIGNAL THEN "cahExists" ELSE "readHistory"]
                     /\ loc' = [loc EXCEPT ![p] = [LocIdle EXCEPT !.in = in, !.signal = signal,
                                                     !.date = toISOString(in.data[Len(in.data)].date)]]
  /\ UNCHANGED <<historyFile, websiteFile, sent, passed, lastRun, ichi, ev>>

\* line 122: fs.existsSync(historyPath)
CahExists(p) ==
  /\ pc[p] = "cahExists"
  /\ pc' = [pc EXCEPT ![p] = IF historyFile.exists THEN "cahRead" ELSE "cahCreate"]
  /\ UNCHANGED <<historyFile, websiteFile, sent, passed, lastRun, runs, loc, ichi, ev>>

\* line 123: fs.writeFileSync(historyPath, '{}')
CahCreate(p) ==
  /\ pc[p] = "cahCreate"
  /\ historyFile' = File(<<>>)
  /\ pc' = [pc EXCEPT ![p] = "cahRead"]
  /\ UNCHANGED <<websiteFile, sent, passed, lastRun, runs, loc, ichi, ev>>

\* lines 125-128: read the file; return true if the key is there
CahRead(p) ==
  /\ pc[p] = "cahRead"
  /\ IF HistoryHas(historyFile.content, AlertKey(loc[p].signal, loc[p].date))
     THEN /\ pc' = [pc EXCEPT ![p] = "readHistory"]
          /\ loc' = loc
     ELSE /\ pc' = [pc EXCEPT ![p] = "cahWrite"]
          /\ loc' = [loc EXCEPT ![p].history =
                        HistorySet(historyFile.content, AlertKey(loc[p].signal, loc[p].date))]
  /\ UNCHANGED <<historyFile, websiteFile, sent, passed, lastRun, runs, ichi, ev>>

\* lines 129-130: write the file back; return false
CahWrite(p) ==
  /\ pc[p] = "cahWrite"
  /\ historyFile' = File(loc[p].history)
  /\ passed' = passed \cup {[type |-> loc[p].signal, date |-> Split(loc[p].date, "T")[1]]}
  /\ pc' = [pc EXCEPT ![p] = "send"]
  /\ UNCHANGED <<websiteFile, sent, lastRun, runs, loc, ichi, ev>>

\* lines 166-170: await sendEmail(...)
SendEmail(p) ==
  /\ pc[p] = "send"
  /\ sent' = Append(sent, [signal |-> loc[p].signal, day |-> Split(loc[p].date, "T")[1],
                            price |-> loc[p].in.data[Len(loc[p].in.data)].close])
  /\ pc' = [pc EXCEPT ![p] = "readHistory"]
  /\ UNCHANGED <<historyFile, websiteFile, passed, lastRun, runs, loc, ichi, ev>>

\* line 175: read the ledger for the signal history
ReadHistory(p) ==
  /\ pc[p] = "readHistory"
  /\ loc' = [loc EXCEPT ![p].historyData = ReadHistoryKeys(historyFile)]
  /\ pc' = [pc EXCEPT ![p] = "publish"]
  /\ UNCHANGED <<historyFile, websiteFile, sent, passed, lastRun, runs, ichi, ev>>

\* lines 176-218: build the snapshot and write data.json
Publish(p) ==
  /\ pc[p] = "publish"
  /\ websiteFile' =
       File(websiteData(loc[p].in.data, Fin(loc[p].in.data[Len(loc[p].in.data)].close),
                        loc[p].date, loc[p].signal,
                        getIchimokuAt(loc[p].in.data, Len(loc[p].in.data) - 1),
                        loc[p].historyData))
  /\ pc' = [pc EXCEPT ![p] = "done"]
  /\ UNCHANGED <<historyFile, sent, passed, lastRun, runs, loc, ichi, ev>>

\* the process dies between two steps
Crash(p) ==
  /\ pc[p] \in Running
  /\ pc' = [pc EXCEPT ![p] = "crashed"]
  /\ UNCHANGED <<historyFile, websiteFile, sent, passed, lastRun, runs, loc, ichi, ev>>

NextConc ==
  \E p \in Procs :
    \/ StartRun(p)
    \/ CahExists(p)
    \/ CahCreate(p)
    \/ CahRead(p)
    \/ CahWrite(p)
    \/ SendEmail(p)
    \/ ReadHistory(p)
    \/ Publish(p)
    \/ Crash(p)

SpecConc == InitConc /\ [][NextConc]_vars

\* ---------------------------------------------------------------------
\* SpecIchi: getIchimokuAt applied to bounded series and indices
\* ---------------------------------------------------------------------
\* distances of the spike and of the dip from the evaluated index: edges
\* of the windows, one bar inside and one bar outside
Offsets == {-1, 0, 9, 25, 26, 35}
Bases == {0, 8}

IchiInputs ==
  {[data |-> MkSeries(len, 100, base, i, hp, lp, base), index |-> i,
    result |-> NullIchimoku, done |-> FALSE] :
     len \in MinLen..MaxIchiLen, i \in 0..(MaxIchiLen - 1),
     base \in Bases, hp \in Offsets, lp \in Offsets}

InitIchi ==
  /\ ichi \in {x \in IchiInputs : x.index < Len(x.data)}
  /\ ev = EvIdle
  /\ InitProg

Compute ==
  /\ ~ichi.done
  /\ ichi' = [ichi EXCEPT !.result = getIchimokuAt(ichi.data, ichi.index), !.done = TRUE]
  /\ UNCHANGED <<ev, progVars>>

NextIchi == Compute

SpecIchi == InitIchi /\ [][NextIchi]_vars

\* ---------------------------------------------------------------------
\* SpecEval: the signal evaluation applied to bounded prices and tuples
\* ---------------------------------------------------------------------
EvalVals == {0, 4, 8}

InitEval ==
  /\ InitProg
  /\ ichi = IchiIdle
  /\ ev \in {[price |-> Fin(p),
              ich |-> [null |-> FALSE, tenkan |-> Fin(t), kijun |-> Fin(k),
                       spanA |-> Fin(a), spanB |-> Fin(b)],
              signal |-> NOSIGNAL, done |-> FALSE] :
               p \in EvalVals, t \in EvalVals, k \in EvalVals,
               a \in EvalVals, b \in EvalVals}

Evaluate ==
  /\ ~ev.done
  /\ ev' = [ev EXCEPT !.signal = evaluateSignal(ev.price, ev.ich), !.done = TRUE]
  /\ UNCHANGED <<ichi, progVars>>

NextEval == Evaluate

SpecEval == InitEval /\ [][NextEval]_vars

\* ---------------------------------------------------------------------
\* Properties of getIchimokuAt
\* ---------------------------------------------------------------------
AllFinite(r) ==
  IsFinite(r.tenkan) /\ IsFinite(r.kijun) /\ IsFinite(r.spanA) /\ IsFinite(r.spanB)

\* C3 (as stated): getIchimokuAt returns null when the index is below 61
\* and a tuple of four finite components from index 61 on.
C3_Threshold61 ==
  ichi.done =>
    IF ichi.index < 61 THEN ichi.result.null
    ELSE ~ichi.result.null /\ AllFinite(ichi.result)

\* C3 (amended): getIchimokuAt returns null when the index is below 77
\* and a tuple of four finite components from index 77 on (index within
\* the series, finite bars).
C3_Threshold77 ==
  ichi.done =>
    IF ichi.index < 77 THEN ichi.result.null
    ELSE ~ichi.result.null /\ AllFinite(ichi.result)

\* a tuple was computed at the first defined index of a series
C3_Witness == ichi.done /\ ichi.index = 77 /\ ~ichi.result.null

\* highest high / lowest low of the bars data[from..to] (0-based, closed)
RangeHigh(data, from, to) ==
  CHOOSE x \in {data[j + 1].high : j \in from..to} : \A j \in from..to : data[j + 1].high <= x
RangeLow(data, from, to) ==
  CHOOSE x \in {data[j + 1].low : j \in from..to} : \A j \in from..to : data[j + 1].low >= x

\* C10: wherever the tuple is defined, spanA is the average of the 9-bar
\* midpoint over series[i-34 .. i-26] and the 26-bar midpoint over
\* series[i-51 .. i-26].
C10_SpanAAt26 ==
  (ichi.done /\ ~ichi.result.null) =>
    LET i == ichi.index
        t == (RangeHigh(ichi.data, i - 34, i - 26) + RangeLow(ichi.data, i - 34, i - 26))
        k == (RangeHigh(ichi.data, i - 51, i - 26) + RangeLow(ichi.data, i - 51, i - 26))
    IN /\ IsFinite(ichi.result.spanA)
       /\ 4 * ichi.result.spanA.v = t + k

\* ---------------------------------------------------------------------
\* Properties of the signal evaluation
\* ---------------------------------------------------------------------
\* C4: the signal is BUY iff tenkan > kijun and price > max(spanA, spanB),
\* SELL iff tenkan < kijun and price < min(spanA, spanB), NEUTRAL
\* otherwise; a tie tenkan = kijun is NEUTRAL; never both BUY and SELL.
C4_SignalRule ==
  ev.done =>
    LET p == ev.price.v
        t == ev.ich.tenkan.v
        k == ev.ich.kijun.v
        a == ev.ich.spanA.v
        b == ev.ich.spanB.v
        buy == t > k /\ p > a /\ p > b
        sell == t < k /\ p < a /\ p < b
        name == SignalName(ev.signal)
    IN /\ (name = BUY) <=> buy
       /\ (name = SELL) <=> sell
       /\ (name = NEUTRAL) <=> (~buy /\ ~sell)
       /\ (t = k) => (name = NEUTRAL)
       /\ ~(buy /\ sell)

\* a tie with the price above the cloud was evaluated
C4_Witness ==
  /\ ev.done
  /\ ev.ich.tenkan = ev.ich.kijun
  /\ ev.price.v > ev.ich.spanA.v /\ ev.price.v > ev.ich.spanB.v
  /\ ev.signal = NOSIGNAL
\* ---------------------------------------------------------------------
\* Properties of the runs (Spec)
\* ---------------------------------------------------------------------
\* the ledger key of a (signal type, calendar day) pair
PairKey(type, day) == type \o <<"-">> \o day

SentCount(log, type, day) ==
  Cardinality({i \in 1..Len(log) : log[i].signal = type /\ log[i].day = day})

\* the ledger held an entry for the pair of the run that has just ended
HeldAtStart == lastRun'.checked /\ InSeq(historyFile.content, PairKey(lastRun'.signal, lastRun'.day))

\* C1: over successive runs on the same ledger, sendEmail is called at
\* most once per (signal type, calendar day): a run sends only if the
\* ledger held no entry for its (S, D) when it started, and a later run
\* with the same S and D sends none.
C1_AtMostOncePerSignalDay ==
  [][/\ \A i \in 1..Len(sent') : SentCount(sent', sent'[i].signal, sent'[i].day) = 1
     /\ (Len(sent') > Len(sent)) => (lastRun'.checked /\ ~HeldAtStart)
     /\ HeldAtStart => (sent' = sent)
     /\ (lastRun'.checked /\ SentCount(sent, lastRun'.signal, lastRun'.day) > 0) => (sent' = sent)]_vars

\* a second run with the signal and day of the first has sent nothing
C1_Witness ==
  /\ runs = 2
  /\ Len(sent) = 1
  /\ lastRun.checked /\ ~lastRun.notified
  /\ sent[1].signal = lastRun.signal /\ sent[1].day = lastRun.day

\* C5: a run whose fetch fails ends with a non-zero outcome, leaves the
\* ledger file and the snapshot file as they were and sends nothing.
C5_FetchFailureChangesNothing ==
  [][(runs' = runs + 1 /\ ~lastRun'.fetched) =>
       /\ lastRun'.exit # 0
       /\ historyFile' = historyFile
       /\ websiteFile' = websiteFile
       /\ sent' = sent
       /\ ~lastRun'.published /\ ~lastRun'.notified]_vars

\* a fetch failed after a run that had recorded a signal and published
C5_Witness ==
  /\ runs >= 2
  /\ ~lastRun.fetched /\ lastRun.exit = 1
  /\ historyFile.exists /\ Len(historyFile.content) > 0
  /\ websiteFile.exists

\* the signal of the published price and tuple, by the rule of the spec
SnapshotRule(w) ==
  IF w.ichimoku.tenkan.v > w.ichimoku.kijun.v
     /\ w.price.v > w.ichimoku.senkouA.v /\ w.price.v > w.ichimoku.senkouB.v THEN BUY
  ELSE IF w.ichimoku.tenkan.v < w.ichimoku.kijun.v
     /\ w.price.v < w.ichimoku.senkouA.v /\ w.price.v < w.ichimoku.senkouB.v THEN SELL
  ELSE NEUTRAL

\* C6: every run that fetched at least 80 bars has published a snapshot
\* of its latest bar whose signal is the signal evaluated for that bar
\* (NEUTRAL when neither BUY nor SELL), whether or not the signal was new
\* and whatever the deliveries did; a NEUTRAL run sends nothing.
C6_AlwaysPublishes ==
  (lastRun.fetched /\ lastRun.len >= 80) =>
    /\ lastRun.published /\ lastRun.exit = 0
    /\ websiteFile.exists
    /\ SubSeq(websiteFile.content.date, 1, 10) = lastRun.day
    /\ websiteFile.content.signal = SnapshotRule(websiteFile.content)
    /\ websiteFile.content.signal = (IF lastRun.signal = NOSIGNAL THEN NEUTRAL ELSE lastRun.signal)
    /\ (websiteFile.content.signal = NEUTRAL) => ~lastRun.notified

\* a NEUTRAL run of exactly 80 bars has published, after an earlier
\* signal was recorded and notified
C6_Witness ==
  /\ lastRun.fetched /\ lastRun.len = 80
  /\ lastRun.signal = NOSIGNAL
  /\ lastRun.published
  /\ websiteFile.content.signal = NEUTRAL
  /\ Len(sent) > 0

\* C7: the signalHistory of every published snapshot is, as a set of
\* {type, date}, the set of (signal type, calendar day) pairs recorded in
\* the ledger at the end of the run, each once, with the full date.
C7_SignalHistoryIsLedger ==
  lastRun.published =>
    LET h == websiteFile.content.signalHistory
    IN /\ {h[i] : i \in 1..Len(h)} = passed
       /\ Len(h) = Cardinality(passed)
       /\ \A i \in 1..Len(h) : historyFile.content[i] = PairKey(h[i].type, h[i].date)

\* a run has recorded a second pair and published both
C7_Witness ==
  /\ lastRun.published /\ lastRun.notified
  /\ Cardinality(passed) = 2
  /\ [type |-> lastRun.signal, date |-> lastRun.day] \in passed
  /\ Len(websiteFile.content.signalHistory) = 2

LedgerIsPassed ==
  /\ {historyFile.content[i] : i \in 1..Len(historyFile.content)}
       = {PairKey(pr.type, pr.date) : pr \in passed}
  /\ Len(historyFile.content) = Cardinality(passed)

\* C8: after any sequence of checkAlertHistory calls the ledger holds
\* exactly the distinct pairs passed so far, each once; no entry is ever
\* removed; a call with a recorded pair reports it as fired and leaves
\* the ledger as it was.
C8_LedgerIsExactlyThePairs ==
  [][/\ LedgerIsPassed
     /\ LedgerIsPassed'
     /\ Len(historyFile'.content) >= Len(historyFile.content)
     /\ \A i \in 1..Len(historyFile.content) : historyFile'.content[i] = historyFile.content[i]
     /\ (lastRun'.checked /\ [type |-> lastRun'.signal, date |-> lastRun'.day] \in passed) =>
          (historyFile' = historyFile /\ ~lastRun'.notified)]_vars

\* a call repeated a pair while the ledger held two
C8_Witness ==
  /\ runs = 3
  /\ lastRun.checked /\ ~lastRun.notified
  /\ Len(historyFile.content) = 2
\* ---------------------------------------------------------------------
\* Properties of interleaved and crashing runs (SpecConc)
\* ---------------------------------------------------------------------
\* C2: the notification is sent before the ledger entry is recorded: in
\* every reachable state, also after a crash, the ledger holds an entry
\* for (S, D) only if a notification for (S, D) has already been sent.
C2_SentBeforeRecorded ==
  \A k \in 1..Len(historyFile.content) :
    \E i \in 1..Len(sent) : PairKey(sent[i].signal, sent[i].day) = historyFile.content[k]

\* C9: once two concurrent runs have both run to their end, the ledger
\* holds the entry of every signal either of them recorded: nothing is
\* lost or overwritten.
C9_ConcurrentRunsLoseNothing ==
  (runs = 2 /\ \A p \in Procs : pc[p] = "done") =>
    \A pr \in passed : InSeq(historyFile.content, PairKey(pr.type, pr.date))
\* ---------------------------------------------------------------------
\* Properties of the snapshot's history
\* ---------------------------------------------------------------------
\* the published field of entry e for a component of the tuple r: null
\* exactly when r is undefined, the computed value otherwise
FieldFaithful(e, r, field) ==
  /\ (e[field] = JsonNull) <=> r.null
  /\ ~r.null => e[field] = r[field]

\* C11: the history of a published snapshot has exactly 40 entries, the
\* k-th being the bar at absolute index length-40+k with getIchimokuAt
\* evaluated at that index over the whole series: each of tenkan, kijun,
\* spanA, spanB is null iff the tuple is undefined there and is the
\* computed value otherwise, a computed zero included.
C11_HistoryFaithful ==
  lastRun.published =>
    LET h == websiteFile.content.history
        data == lastRun.data
    IN /\ Len(h) = 40
       /\ \A k \in 0..39 :
            LET absIdx == Len(data) - 40 + k
                bar == data[absIdx + 1]
                r == getIchimokuAt(data, absIdx)
            IN /\ h[k + 1].date = IsoDay(bar.date)
               /\ h[k + 1].open = bar.open /\ h[k + 1].high = bar.high
               /\ h[k + 1].low = bar.low /\ h[k + 1].close = bar.close
               /\ FieldFaithful(h[k + 1], r, "tenkan")
               /\ FieldFaithful(h[k + 1], r, "kijun")
               /\ FieldFaithful(h[k + 1], r, "spanA")
               /\ FieldFaithful(h[k + 1], r, "spanB")
====
